---- MODULE Spec2Model ----
(***************************************************************************)
(* Model of social/backends/saml.py: the SAML 2.0 backend of the social    *)
(* authentication pipeline.                                                *)
(*                                                                         *)
(* Python strings are sequences of one-character strings, so that          *)
(* indexing (s[0]), containment (':' in s) and concatenation are computed  *)
(* as Python computes them.  Python values that the code indexes are       *)
(* tagged with their type: StrV (str), ListV (list of str), NoneV (None).  *)
(* A call either returns (Ok) or raises (Err, with the exception's name).  *)
(* The interpreter runs with assert statements compiled in (__debug__) or  *)
(* with -O / PYTHONOPTIMIZE, which compiles them out.                      *)
(***************************************************************************)
EXTENDS Naturals, Sequences, FiniteSets, TLC

VARIABLES
    debug,         \* Python's __debug__: FALSE when run with -O / PYTHONOPTIMIZE
    ENABLED_IDPS,  \* the SOCIAL_AUTH_SAML_ENABLED_IDPS setting: name -> conf
    request,       \* the handler invoked last, with its inputs
    result,        \* what that handler returned or raised
    relay,         \* RelayState of the login request sent by auth_url
    calls,         \* collaborators invoked by the last auth_complete, in order
    response       \* the response auth_complete handed to the pipeline

vars == <<debug, ENABLED_IDPS, request, result, relay, calls, response>>

----------------------------------------------------------------------------
(* Bounds *)

MaxNameLen == 2   \* longest provider name / permanent ID drawn as an input
MaxIdps == 2      \* most entries of ENABLED_IDPS
MaxAttrs == 2     \* most attributes in an assertion's attribute statement
MaxOverrides == 1 \* most attribute-name overrides in one provider's settings

----------------------------------------------------------------------------
(* Python values *)

Ok(v) == [ok |-> TRUE, val |-> v]
Err(e) == [ok |-> FALSE, err |-> e]

StrV(s) == [kind |-> "str", val |-> s]
ListV(l) == [kind |-> "list", val |-> l]
NoneV == [kind |-> "none", val |-> <<>>]
DictV(d) == [kind |-> "dict", val |-> d]

\* All strings over an alphabet, up to a length.
Strs(chars, n) == UNION {[1..k -> chars] : k \in 0..n}

\* c in s
Contains(s, c) == \E i \in 1..Len(s) : s[i] = c

\* v[0]: the first element of a list, the first character of a str (itself
\* a str), IndexError on an empty one, TypeError on None.
Index0(v) ==
    IF v.kind = "none" THEN Err("TypeError")
    ELSE IF Len(v.val) = 0 THEN Err("IndexError")
    ELSE IF v.kind = "list" THEN Ok(StrV(v.val[1]))
    ELSE Ok(StrV(<<v.val[1]>>))

----------------------------------------------------------------------------
(* Constants of the module *)

OID_COMMON_NAME == "urn:oid:2.5.4.3"
OID_GIVEN_NAME == "urn:oid:2.5.4.42"
OID_MAIL == "urn:oid:0.9.2342.19200300.100.1.3"
OID_SURNAME == "urn:oid:2.5.4.4"
OID_USERID == "urn:oid:0.9.2342.19200300.100.1.1"

\* The entry auth_complete adds to the attributes, and an attribute name of
\* an identity provider's own.
NAME_ID == "name_id"
CUSTOM_ATTR == "custom:attr"

----------------------------------------------------------------------------
(* class SAMLIdentityProvider *)

\* dict.get(key, default)
DictGet(d, key, default) == IF key \in DOMAIN d THEN d[key] ELSE default

\* SAMLIdentityProvider(name, **kwargs), calling __init__(self, name,
\* **kwargs): TypeError when a keyword is the name of a positional parameter
\* (multiple values for the argument); then, in __init__, AssertionError when
\* the name is no slug and the assert statement is compiled in; else the
\* object.
SAMLIdentityProvider(name, kwargs) ==
    IF DOMAIN kwargs \cap {"self", "name"} # {}
    THEN Err("TypeError")
    ELSE IF debug /\ ~(~Contains(name, ":") /\ ~Contains(name, " "))
    THEN Err("AssertionError")
    ELSE Ok([name |-> name, conf |-> kwargs])

\* get_user_permanent_id falling back to the default OID when the
\* configured attribute is missing.
get_user_permanent_id_Fallback(idp, attributes) ==
    LET key == DictGet(idp.conf, "user_permanent_id", OID_USERID)
        k == IF key \in DOMAIN attributes THEN key ELSE OID_USERID
    IN  IF k \notin DOMAIN attributes THEN Err("KeyError")
        ELSE Index0(attributes[k])

\* SAMLIdentityProvider.get_user_permanent_id
get_user_permanent_id(idp, attributes) ==
    LET key == DictGet(idp.conf, "user_permanent_id", OID_USERID)
    IN  IF key \notin DOMAIN attributes THEN Err("KeyError")
        ELSE Index0(attributes[key])

\* get_attr reading the default attribute when the override is missing.
get_attr_Fallback(idp, attributes, conf_key, default_attribute) ==
    LET key == DictGet(idp.conf, conf_key, default_attribute)
        k == IF key \in DOMAIN attributes THEN key ELSE default_attribute
    IN  IF k \in DOMAIN attributes THEN Index0(attributes[k]) ELSE Ok(NoneV)

\* SAMLIdentityProvider.get_attr
get_attr(idp, attributes, conf_key, default_attribute) ==
    LET key == DictGet(idp.conf, conf_key, default_attribute)
    IN  IF key \in DOMAIN attributes THEN Index0(attributes[key]) ELSE Ok(NoneV)

\* The five fields of get_user_details, in the order the dict display
\* evaluates them, each with its conf key and its default attribute.
DetailFields ==
    << [field |-> "fullname", conf_key |-> "attr_full_name", default |-> OID_COMMON_NAME],
       [field |-> "first_name", conf_key |-> "attr_first_name", default |-> OID_GIVEN_NAME],
       [field |-> "last_name", conf_key |-> "attr_last_name", default |-> OID_SURNAME],
       [field |-> "username", conf_key |-> "attr_username", default |-> OID_USERID],
       [field |-> "email", conf_key |-> "attr_email", default |-> OID_MAIL] >>

FieldNames == {DetailFields[i].field : i \in DOMAIN DetailFields}

\* The get_attr call that get_user_details makes for its i-th field.
FieldLookup(idp, attributes, i) ==
    get_attr(idp, attributes, DetailFields[i].conf_key, DetailFields[i].default)

\* SAMLIdentityProvider.get_user_details: the dict of the five lookups, or
\* the exception of the first lookup that raises.
idp_get_user_details(idp, attributes) ==
    LET got == [i \in DOMAIN DetailFields |-> FieldLookup(idp, attributes, i)]
        bad == {i \in DOMAIN DetailFields : ~got[i].ok}
    IN  IF bad # {}
        THEN got[CHOOSE i \in bad : \A j \in bad : i <= j]
        ELSE Ok([f \in FieldNames |->
                   got[CHOOSE i \in DOMAIN DetailFields : DetailFields[i].field = f].val])

\* SAMLIdentityProvider.sso_binding
sso_binding(idp) ==
    DictGet(idp.conf, "binding", "urn:oasis:names:tc:SAML:2.0:bindings:HTTP-Redirect")

\* SAMLIdentityProvider.saml_config_dict (with entity_id, sso_url, x509cert):
\* KeyError when a required setting is missing.
saml_config_dict(idp) ==
    IF {"entity_id", "url", "x509cert"} \subseteq DOMAIN idp.conf
    THEN Ok([entityId |-> idp.conf["entity_id"],
             singleSignOnService |-> [url |-> idp.conf["url"], binding |-> sso_binding(idp)],
             x509cert |-> idp.conf["x509cert"]])
    ELSE Err("KeyError")

\* DummySAMLIdentityProvider()
DummySAMLIdentityProvider ==
    SAMLIdentityProvider(
        <<"d","u","m","m","y">>,
        ("entity_id" :> <<"h","t","t","p","s",":","/","/","d","u","m","m","y",".","n","o","n","e",
                          "/","s","a","m","l","2">>)
        @@ ("url" :> <<"h","t","t","p","s",":","/","/","d","u","m","m","y",".","n","o","n","e",
                       "/","S","S","O">>)
        @@ ("x509cert" :> <<>>))

----------------------------------------------------------------------------
(* class SAMLAuth: the registry and the pipeline's callbacks *)

\* SAMLAuth.get_idp: the registered record becomes the keyword arguments
\* of the constructor.
get_idp(idp_name) ==
    IF idp_name \notin DOMAIN ENABLED_IDPS THEN Err("KeyError")
    ELSE SAMLIdentityProvider(idp_name, ENABLED_IDPS[idp_name])

\* SAMLAuth.get_user_details
get_user_details(resp) ==
    LET idp == get_idp(resp.idp_name)
    IN  IF ~idp.ok THEN idp ELSE idp_get_user_details(idp.val, resp.attributes)

\* '{}:{}'.format(name, uid) for a str uid
FormatUserId(name, uid) == StrV(name \o <<":">> \o uid.val)

\* SAMLAuth.get_user_id
get_user_id(resp) ==
    LET idp == get_idp(resp.idp_name)
    IN  IF ~idp.ok THEN idp
        ELSE LET uid == get_user_permanent_id(idp.val, resp.attributes)
             IN  IF ~uid.ok THEN uid ELSE Ok(FormatUserId(idp.val.name, uid.val))

\* SAMLAuth.generate_saml_config: the part of the configuration that
\* depends on the provider, and the forced strict mode.
generate_saml_config(idp) ==
    LET d == saml_config_dict(idp)
    IN  IF ~d.ok THEN d ELSE Ok([idp |-> d.val, strict |-> TRUE])

\* One invocation of a collaborator, with what it was given.
Call(fn, arg) == [fn |-> fn, arg |-> arg]

\* What a handler leaves behind: what it returned or raised, the
\* collaborators it invoked, and the response it handed to the pipeline.
Outcome(res, cs, resp) == [result |-> res, calls |-> cs, response |-> resp]

\* auth_url sending the backend's name as the RelayState.
auth_url_BackendName(data) ==
    IF "idp" \notin DOMAIN data THEN Outcome(Err("KeyError"), <<>>, NoneV)
    ELSE
    LET idp == get_idp(data["idp"])
        c1 == <<Call("get_idp", StrV(data["idp"]))>>
    IN  IF ~idp.ok THEN Outcome(idp, c1, NoneV)
        ELSE
        LET config == generate_saml_config(idp.val)
        IN  IF ~config.ok THEN Outcome(config, c1, NoneV)
            ELSE Outcome(
                     Ok([sso_url |-> config.val.idp.singleSignOnService.url,
                         RelayState |-> <<"s","a","m","l">>]),
                     c1 \o <<Call("OneLogin_Saml2_Auth", DictV(config.val)),
                             Call("login", StrV(<<"s","a","m","l">>))>>,
                     NoneV)

\* SAMLAuth.auth_url: the redirect of auth.login(return_to=idp_name), which
\* goes to the provider's SSO URL and carries return_to as its RelayState.
auth_url(data) ==
    IF "idp" \notin DOMAIN data THEN Outcome(Err("KeyError"), <<>>, NoneV)
    ELSE
    LET idp_name == data["idp"]
        idp == get_idp(idp_name)
        c1 == <<Call("get_idp", StrV(idp_name))>>
    IN  IF ~idp.ok THEN Outcome(idp, c1, NoneV)
        ELSE
        LET config == generate_saml_config(idp.val)
        IN  IF ~config.ok THEN Outcome(config, c1, NoneV)
            ELSE Outcome(
                     Ok([sso_url |-> config.val.idp.singleSignOnService.url,
                         RelayState |-> idp_name]),
                     c1 \o <<Call("OneLogin_Saml2_Auth", DictV(config.val)),
                             Call("login", StrV(idp_name))>>,
                     NoneV)

\* SAMLAuth._check_entitlements: does nothing, unless a subclass overrides
\* it to raise AuthForbidden.
check_entitlements(hook, idp, attributes) ==
    IF hook = "forbid" THEN Err("AuthForbidden") ELSE Ok(NoneV)

\* strategy.authenticate(response=..., backend=...): the outer pipeline,
\* known here by the response it is handed.
authenticate(resp) == Ok(DictV(resp))

\* auth_complete testing the engine's errors only.
auth_complete_ErrorsOnly(data, engine, hook) ==
    IF "RelayState" \notin DOMAIN data THEN Outcome(Err("KeyError"), <<>>, NoneV)
    ELSE
    LET idp_name == data["RelayState"]
        idp == get_idp(idp_name)
        c1 == <<Call("get_idp", StrV(idp_name))>>
    IN  IF ~idp.ok THEN Outcome(idp, c1, NoneV)
        ELSE
        LET config == generate_saml_config(idp.val)
        IN  IF ~config.ok THEN Outcome(config, c1, NoneV)
            ELSE
            LET c2 == c1 \o <<Call("OneLogin_Saml2_Auth", DictV(config.val)),
                              Call("process_response", NoneV)>>
            IN  IF Len(engine.errors) > 0
                THEN Outcome(Err("AuthFailed"), c2, NoneV)
                ELSE
                LET attributes == (NAME_ID :> StrV(engine.nameid)) @@ engine.attributes
                    allowed == check_entitlements(hook, idp.val, attributes)
                    c3 == c2 \o <<Call("_check_entitlements", DictV(attributes))>>
                IN  IF ~allowed.ok THEN Outcome(allowed, c3, NoneV)
                    ELSE
                    LET resp == [idp_name |-> idp_name,
                                 attributes |-> attributes,
                                 session_index |-> engine.session_index]
                    IN  Outcome(authenticate(resp),
                                c3 \o <<Call("authenticate", DictV(resp))>>,
                                DictV(resp))

\* SAMLAuth.auth_complete
auth_complete(data, engine, hook) ==
    IF "RelayState" \notin DOMAIN data THEN Outcome(Err("KeyError"), <<>>, NoneV)
    ELSE
    LET idp_name == data["RelayState"]
        idp == get_idp(idp_name)
        c1 == <<Call("get_idp", StrV(idp_name))>>
    IN  IF ~idp.ok THEN Outcome(idp, c1, NoneV)
        ELSE
        LET config == generate_saml_config(idp.val)
        IN  IF ~config.ok THEN Outcome(config, c1, NoneV)
            ELSE
            LET c2 == c1 \o <<Call("OneLogin_Saml2_Auth", DictV(config.val)),
                              Call("process_response", NoneV)>>
            IN  IF Len(engine.errors) > 0 \/ ~engine.is_authenticated
                THEN Outcome(Err("AuthFailed"), c2, NoneV)
                ELSE
                LET attributes == (NAME_ID :> StrV(engine.nameid)) @@ engine.attributes
                    allowed == check_entitlements(hook, idp.val, attributes)
                    c3 == c2 \o <<Call("_check_entitlements", DictV(attributes))>>
                IN  IF ~allowed.ok THEN Outcome(allowed, c3, NoneV)
                    ELSE
                    LET resp == [idp_name |-> idp_name,
                                 attributes |-> attributes,
                                 session_index |-> engine.session_index]
                    IN  Outcome(authenticate(resp),
                                c3 \o <<Call("authenticate", DictV(resp))>>,
                                DictV(resp))

----------------------------------------------------------------------------
(* Inputs *)

NameChars == {"a", ":", " "}
Names == Strs(NameChars, MaxNameLen)

PidChars == {"a", ":"}
Pids == Strs(PidChars, MaxNameLen)

\* The subsets of S with at most k elements.
SubsetsUpTo(S, k) == UNION {{{f[i] : i \in 1..j} : f \in [1..j -> S]} : j \in 0..k}

\* The settings of one identity provider, as in the class docstring's
\* example: its entity ID, its SSO URL and its certificate.
IdpConf(n) ==
    ("entity_id" :> <<"i","d","p","/">> \o n)
    @@ ("url" :> <<"s","s","o","/">> \o n)
    @@ ("x509cert" :> <<"c","e","r","t","/">> \o n)

\* A response of auth_complete for a user the engine reported with one
\* user-ID attribute value.
UidResponse(n, pid) ==
    [idp_name |-> n,
     attributes |-> (OID_USERID :> ListV(<<pid>>)),
     session_index |-> <<"s">>]

\* The registries over a set S of names whose records are r[n], of which at
\* most one holds a display name.
Labelled(S, r) ==
    {[n \in S |-> IF n \in L THEN r[n] @@ ("name" :> <<"I","d","P">>) ELSE r[n]] :
        L \in SubsetsUpTo(S, 1)}

NoRequest == [op |-> "none"]
NoResult == Err("not called")

----------------------------------------------------------------------------
(* The registry: constructing providers, get_idp, get_user_id *)

InitRegistry ==
    /\ debug \in BOOLEAN
    /\ ENABLED_IDPS \in
         UNION {Labelled(S, [n \in S |-> IdpConf(n)]) : S \in SubsetsUpTo(Names, MaxIdps)}
    /\ request = NoRequest
    /\ result = NoResult
    /\ relay = NoneV
    /\ calls = <<>>
    /\ response = NoneV

\* A backend instance is loaded for one HTTP request and serves one call.
Idle == request = NoRequest

\* SAMLIdentityProvider(name, **kwargs)
Construct(name, kwargs) ==
    /\ request' = [op |-> "SAMLIdentityProvider", name |-> name, kwargs |-> kwargs]
    /\ result' = SAMLIdentityProvider(name, kwargs)
    /\ UNCHANGED <<debug, ENABLED_IDPS, relay, calls, response>>

\* DummySAMLIdentityProvider()
ConstructDummy ==
    /\ request' = [op |-> "DummySAMLIdentityProvider"]
    /\ result' = DummySAMLIdentityProvider
    /\ UNCHANGED <<debug, ENABLED_IDPS, relay, calls, response>>

\* backend.get_idp(idp_name)
GetIdp(idp_name) ==
    /\ request' = [op |-> "get_idp", name |-> idp_name]
    /\ result' = get_idp(idp_name)
    /\ UNCHANGED <<debug, ENABLED_IDPS, relay, calls, response>>

\* backend.get_user_id(details, response)
GetUserId(resp) ==
    /\ request' = [op |-> "get_user_id", response |-> resp]
    /\ result' = get_user_id(resp)
    /\ UNCHANGED <<debug, ENABLED_IDPS, relay, calls, response>>

NextRegistry ==
    \/ Idle /\ \E name \in Names : Construct(name, IdpConf(name))
    \/ Idle /\ ConstructDummy
    \/ Idle /\ \E name \in Names : GetIdp(name)
    \/ Idle /\ \E name \in DOMAIN ENABLED_IDPS, pid \in Pids :
                  GetUserId(UidResponse(name, pid))

SpecRegistry == InitRegistry /\ [][NextRegistry]_vars

IsSlug(name) == ~Contains(name, ":") /\ ~Contains(name, " ")

\* C1 as claimed: constructing a provider fails exactly when the name
\* contains a colon or a space, and no provider object (constructed directly,
\* by get_idp or as the dummy provider) has such a name.
Cex_C1 ==
    /\ request.op = "SAMLIdentityProvider" =>
         /\ result.ok <=> ~(Contains(request.name, ":") \/ Contains(request.name, " "))
         /\ result.ok => result.val.name = request.name
    /\ request.op \in {"SAMLIdentityProvider", "DummySAMLIdentityProvider", "get_idp"}
       /\ result.ok =>
         ~Contains(result.val.name, ":") /\ ~Contains(result.val.name, " ")

\* C2 as claimed: the user ID issued for a provider and a permanent ID is
\* issued for no other pair: not for another registered provider, whatever
\* its permanent ID (equal or not, with colons or without), and not for
\* another permanent ID of the same provider.
Cex_C2 ==
    request.op = "get_user_id" /\ result.ok =>
        \A n2 \in DOMAIN ENABLED_IDPS, p2 \in Pids :
            LET other == get_user_id(UidResponse(n2, p2))
            IN  UidResponse(n2, p2) # request.response /\ other.ok =>
                    other.val # result.val

\* C7 as claimed: get_idp returns, for a registered slug, the provider of
\* that name with the configuration registered under it, and fails for a
\* name that is not registered.
Cex_C7 ==
    request.op = "get_idp" =>
        IF request.name \in DOMAIN ENABLED_IDPS
        THEN IsSlug(request.name) =>
                /\ result.ok
                /\ result.val.name = request.name
                /\ result.val.conf = ENABLED_IDPS[request.name]
        ELSE ~result.ok

----------------------------------------------------------------------------
(* The claims mapper: permanent ID and profile of a provider *)

SampleNames == {<<"t","e","s","t","s","h","i","b">>, <<"i","d","p","A">>}

\* The settings that name an attribute, and the names they are set to.
OverrideKeys ==
    {"user_permanent_id"} \cup {DetailFields[i].conf_key : i \in DOMAIN DetailFields}
OverrideTargets == {CUSTOM_ATTR, NAME_ID, OID_MAIL}

Overrides ==
    UNION {[D -> OverrideTargets] : D \in SubsetsUpTo(OverrideKeys, MaxOverrides)}

\* The attributes an assertion may carry and the values of one attribute:
\* none, one, or several of which the first differs from the rest.
AssertionAttrNames ==
    {DetailFields[i].default : i \in DOMAIN DetailFields} \cup {CUSTOM_ATTR}
ValueLists ==
    {ListV(<<>>), ListV(<< <<"a","l","i","c","e">> >>), ListV(<< <<"b",":","o","b">>, <<"a","l","i","c","e">> >>)}

\* What OneLogin_Saml2_Auth.get_attributes() returns.
EngineAttributes ==
    UNION {[D -> ValueLists] : D \in SubsetsUpTo(AssertionAttrNames, MaxAttrs)}

\* What OneLogin_Saml2_Auth.get_nameid() returns.
NameIds == {<<"n","i","d">>, <<"u",":","2">>}

\* The attribute sets the callbacks are called with: an assertion's
\* attributes alone, or with the name_id entry as auth_complete adds it.
AttributeSets ==
    EngineAttributes
    \cup {(NAME_ID :> StrV(<<"n","i","d">>)) @@ a : a \in EngineAttributes}

InitMapper ==
    /\ debug \in BOOLEAN
    /\ ENABLED_IDPS \in
         UNION {Labelled({n}, n :> (IdpConf(n) @@ o)) : n \in SampleNames, o \in Overrides}
    /\ request = NoRequest
    /\ result = NoResult
    /\ relay = NoneV
    /\ calls = <<>>
    /\ response = NoneV

\* idp.get_user_permanent_id(attributes), on the provider get_idp returns
GetUserPermanentId(idp_name, attributes) ==
    /\ get_idp(idp_name).ok
    /\ request' = [op |-> "get_user_permanent_id", idp |-> get_idp(idp_name).val,
                   attributes |-> attributes]
    /\ result' = get_user_permanent_id(get_idp(idp_name).val, attributes)
    /\ UNCHANGED <<debug, ENABLED_IDPS, relay, calls, response>>

\* idp.get_user_details(attributes), on the provider get_idp returns
IdpGetUserDetails(idp_name, attributes) ==
    /\ get_idp(idp_name).ok
    /\ request' = [op |-> "idp.get_user_details", idp |-> get_idp(idp_name).val,
                   attributes |-> attributes]
    /\ result' = idp_get_user_details(get_idp(idp_name).val, attributes)
    /\ UNCHANGED <<debug, ENABLED_IDPS, relay, calls, response>>

\* backend.get_user_details(response)
GetUserDetails(resp) ==
    /\ request' = [op |-> "get_user_details", response |-> resp]
    /\ result' = get_user_details(resp)
    /\ UNCHANGED <<debug, ENABLED_IDPS, relay, calls, response>>

MapperResponse(n, attributes) ==
    [idp_name |-> n, attributes |-> attributes, session_index |-> <<"s">>]

NextMapper ==
    \/ Idle /\ \E n \in DOMAIN ENABLED_IDPS, a \in AttributeSets : GetUserPermanentId(n, a)
    \/ Idle /\ \E n \in DOMAIN ENABLED_IDPS, a \in AttributeSets : IdpGetUserDetails(n, a)
    \/ Idle /\ \E n \in DOMAIN ENABLED_IDPS, a \in AttributeSets :
                  GetUserId(MapperResponse(n, a))
    \/ Idle /\ \E n \in DOMAIN ENABLED_IDPS, a \in AttributeSets :
                  GetUserDetails(MapperResponse(n, a))

SpecMapper == InitMapper /\ [][NextMapper]_vars

\* The attribute a provider's settings name for the permanent ID.
PermanentIdKey(conf) ==
    IF "user_permanent_id" \in DOMAIN conf THEN conf["user_permanent_id"] ELSE OID_USERID

\* The attribute a provider's settings name for the i-th profile field.
FieldKey(conf, i) ==
    IF DetailFields[i].conf_key \in DOMAIN conf
    THEN conf[DetailFields[i].conf_key]
    ELSE DetailFields[i].default

\* The first value of an attribute set's entry: the first string of a
\* sequence, the NameID of the name_id entry.
FirstValue(v) == IF v.kind = "list" THEN StrV(v.val[1]) ELSE v

\* C3 as claimed: for a provider (one that get_idp constructs), whenever the
\* attribute set contains the permanent-id key (with a value: an attribute
\* without values has no first value), get_user_permanent_id returns the first value of that attribute and
\* get_user_id returns the provider name, a colon and that value.
Cex_C3 ==
    /\ request.op = "get_user_permanent_id"
       /\ PermanentIdKey(request.idp.conf) \in DOMAIN request.attributes
       /\ Len(request.attributes[PermanentIdKey(request.idp.conf)].val) > 0 =>
         /\ result.ok
         /\ result.val = FirstValue(request.attributes[PermanentIdKey(request.idp.conf)])
    /\ request.op = "get_user_id"
       /\ get_idp(request.response.idp_name).ok
       /\ PermanentIdKey(ENABLED_IDPS[request.response.idp_name])
            \in DOMAIN request.response.attributes
       /\ Len(request.response.attributes[
                PermanentIdKey(ENABLED_IDPS[request.response.idp_name])].val) > 0 =>
         /\ result.ok
         /\ result.val =
              StrV(request.response.idp_name \o <<":">> \o
                   FirstValue(request.response.attributes[
                       PermanentIdKey(ENABLED_IDPS[request.response.idp_name])]).val)

\* C4: when the attribute set lacks the configured (or default) permanent-id
\* key, get_user_permanent_id raises KeyError and get_user_id issues no user
\* ID, whatever other attributes are present.
Thm_C4 ==
    /\ request.op = "get_user_permanent_id"
       /\ PermanentIdKey(request.idp.conf) \notin DOMAIN request.attributes =>
         ~result.ok /\ result.err = "KeyError"
    /\ request.op = "get_user_id"
       /\ PermanentIdKey(ENABLED_IDPS[request.response.idp_name])
            \notin DOMAIN request.response.attributes =>
         /\ ~result.ok
         /\ get_idp(request.response.idp_name).ok => result.err = "KeyError"

\* get_user_id failed for a provider whose permanent-id override names an
\* absent attribute, although the default user-ID attribute and name_id
\* were there.
Wit_C4 ==
    /\ request.op = "get_user_id"
    /\ PermanentIdKey(ENABLED_IDPS[request.response.idp_name]) = CUSTOM_ATTR
    /\ CUSTOM_ATTR \notin DOMAIN request.response.attributes
    /\ {OID_USERID, NAME_ID} \subseteq DOMAIN request.response.attributes
    /\ Len(request.response.attributes[OID_USERID].val) > 0
    /\ ~result.ok

\* C5 as claimed: get_user_details never fails and returns the five fields,
\* each null when its attribute is missing and the attribute's first value
\* otherwise.
Cex_C5 ==
    request.op = "idp.get_user_details" =>
        /\ result.ok
        /\ DOMAIN result.val = FieldNames
        /\ \A i \in DOMAIN DetailFields :
             result.val[DetailFields[i].field] =
                IF FieldKey(request.idp.conf, i) \in DOMAIN request.attributes
                THEN FirstValue(request.attributes[FieldKey(request.idp.conf, i)])
                ELSE NoneV

\* C6: get_user_details looks each field up under the attribute its
\* override names, or under its default when it has no override, and
\* nowhere else: the field is null when that attribute is absent, whatever
\* else is present.
Thm_C6 ==
    request.op = "idp.get_user_details" =>
        \A i \in DOMAIN DetailFields :
            LET key == FieldKey(request.idp.conf, i)
                look == FieldLookup(request.idp, request.attributes, i)
            IN  /\ key \notin DOMAIN request.attributes => look = Ok(NoneV)
                /\ key \in DOMAIN request.attributes =>
                     look = Index0(request.attributes[key])
                /\ result.ok => result.val[DetailFields[i].field] = look.val

\* The username is null for a provider whose username override names an
\* absent attribute, although the default user-ID attribute has a value.
Wit_C6 ==
    /\ request.op = "idp.get_user_details"
    /\ "attr_username" \in DOMAIN request.idp.conf
    /\ request.idp.conf["attr_username"] = CUSTOM_ATTR
    /\ CUSTOM_ATTR \notin DOMAIN request.attributes
    /\ OID_USERID \in DOMAIN request.attributes
    /\ Len(request.attributes[OID_USERID].val) > 0
    /\ result.ok
    /\ result.val["username"] = NoneV

----------------------------------------------------------------------------
(* One login attempt: auth_url, the redirect through the identity provider, *)
(* auth_complete, and the pipeline's callbacks on the response             *)

\* Keys of ENABLED_IDPS: two slugs and a name that is none.
FlowNames == {<<"i","d","p","A">>, <<"i","d","p","B">>, <<"i","d",":","p">>}

\* A provider keeps the default permanent-id attribute or uses the NameID.
FlowOverrides == {o \in Overrides : DOMAIN o \subseteq {"user_permanent_id"} /\ \A k \in DOMAIN o : o[k] = NAME_ID}

FlowRegistries ==
    UNION {UNION {Labelled(S, [n \in S |-> IdpConf(n) @@ o[n]]) : o \in [S -> FlowOverrides]} :
             S \in SubsetsUpTo(FlowNames, MaxIdps)}

\* strategy.request_data() of the two handlers
AuthUrlData == {<<>>} \cup {"idp" :> n : n \in FlowNames}
AuthCompleteData == {<<>>} \cup {"RelayState" :> n : n \in FlowNames}

\* The attributes of the assertion: user ID and mail, or an attribute the
\* identity provider itself calls name_id.
FlowAttributes ==
    {a \in EngineAttributes : DOMAIN a \subseteq {OID_USERID, OID_MAIL}}
    \cup {NAME_ID :> ListV(<< <<"x">> >>)}

\* What the engine reports after process_response().
EngineReports ==
    [errors : {<<>>, <<"invalid_response">>},
     is_authenticated : BOOLEAN,
     attributes : FlowAttributes,
     nameid : NameIds,
     session_index : {<<"s","1">>}]

Init ==
    /\ debug \in BOOLEAN
    /\ ENABLED_IDPS \in FlowRegistries
    /\ request = NoRequest
    /\ result = NoResult
    /\ relay = NoneV
    /\ calls = <<>>
    /\ response = NoneV

\* GET /login/saml/?idp=...: backend.auth_url().  The browser is redirected
\* with the RelayState of the login URL.
AuthUrl(data) ==
    LET out == auth_url(data)
    IN  /\ request' = [op |-> "auth_url", data |-> data]
        /\ result' = out.result
        /\ calls' = out.calls
        /\ relay' = IF out.result.ok THEN StrV(out.result.val.RelayState) ELSE relay
        /\ UNCHANGED <<debug, ENABLED_IDPS, response>>

\* POST /complete/saml/: backend.auth_complete(), with the engine's report
\* on the SAML response and the entitlement hook of the backend class.
AuthComplete(data, engine, hook) ==
    LET out == auth_complete(data, engine, hook)
    IN  /\ request' = [op |-> "auth_complete", data |-> data, engine |-> engine,
                       hook |-> hook]
        /\ result' = out.result
        /\ calls' = out.calls
        /\ response' = out.response
        /\ UNCHANGED <<debug, ENABLED_IDPS, relay>>

\* The pipeline asks for the user ID of the response it was handed.
PipelineGetUserId ==
    /\ request.op = "auth_complete"
    /\ response # NoneV
    /\ GetUserId(response.val)

\* The pipeline asks for the user details of the response it was handed.
PipelineGetUserDetails ==
    /\ request.op = "auth_complete"
    /\ response # NoneV
    /\ GetUserDetails(response.val)

Next ==
    \/ Idle /\ \E data \in AuthUrlData : AuthUrl(data)
    \/ /\ request.op \in {"none", "auth_url"}
       /\ \E data \in AuthCompleteData, engine \in EngineReports, hook \in {"allow", "forbid"} :
             AuthComplete(data, engine, hook)
    \/ PipelineGetUserId
    \/ PipelineGetUserDetails

Spec == Init /\ [][Next]_vars

\* The collaborators the last handler invoked, by name and in order.
CallNames == [i \in DOMAIN calls |-> calls[i].fn]
Called(fn) == \E i \in DOMAIN calls : calls[i].fn = fn

\* C8: auth_complete runs the pipeline only after resolving the provider
\* named by RelayState, then a response the engine processed without errors
\* and authenticated, then an entitlement hook that did not raise, in this
\* order; an engine error or a response not authenticated raises AuthFailed
\* before the hook and the pipeline; a hook that raises stops the pipeline;
\* and whatever fails hands no response to the pipeline.
Thm_C8 ==
    request.op = "auth_complete" =>
        /\ Called("authenticate") =>
             /\ CallNames = <<"get_idp", "OneLogin_Saml2_Auth", "process_response",
                              "_check_entitlements", "authenticate">>
             /\ get_idp(request.data["RelayState"]).ok
             /\ calls[1].arg = StrV(request.data["RelayState"])
             /\ Len(request.engine.errors) = 0
             /\ request.engine.is_authenticated
             /\ request.hook = "allow"
        /\ Called("process_response")
           /\ (Len(request.engine.errors) > 0 \/ ~request.engine.is_authenticated) =>
             /\ result = Err("AuthFailed")
             /\ ~Called("_check_entitlements")
             /\ ~Called("authenticate")
        /\ Called("_check_entitlements") /\ request.hook = "forbid" =>
             ~result.ok /\ ~Called("authenticate")
        /\ result.ok <=> Called("authenticate")
        /\ ~result.ok => response = NoneV

\* auth_complete ran the pipeline.
Wit_C8 ==
    /\ request.op = "auth_complete"
    /\ result.ok
    /\ Called("authenticate")
    /\ response # NoneV

\* C9: auth_url sends as RelayState the name asked for in 'idp', after
\* get_idp resolved it; auth_complete has the engine check the response
\* against the settings registered under the RelayState it receives, or fails
\* before the engine processes anything; and the response handed to the
\* pipeline, and the prefix of the user ID made from it, carry that name: the
\* name asked of auth_url when the RelayState came back unchanged.
Thm_C9 ==
    /\ request.op = "auth_url" =>
         IF result.ok
         THEN /\ "idp" \in DOMAIN request.data
              /\ result.val.RelayState = request.data["idp"]
              /\ relay = StrV(request.data["idp"])
              /\ request.data["idp"] \in DOMAIN ENABLED_IDPS
              /\ CallNames = <<"get_idp", "OneLogin_Saml2_Auth", "login">>
              /\ calls[1].arg = StrV(request.data["idp"])
              /\ calls[3].arg = StrV(request.data["idp"])
         ELSE relay = NoneV /\ ~Called("login")
    /\ request.op = "auth_complete" =>
         /\ Called("process_response") =>
              /\ request.data["RelayState"] \in DOMAIN ENABLED_IDPS
              /\ calls[2].arg.val.idp.entityId =
                    ENABLED_IDPS[request.data["RelayState"]]["entity_id"]
              /\ calls[2].arg.val.idp.x509cert =
                    ENABLED_IDPS[request.data["RelayState"]]["x509cert"]
         /\ result.ok => response.val.idp_name = request.data["RelayState"]
    /\ request.op = "get_user_id" =>
         /\ response.val.idp_name = calls[1].arg.val
         /\ response.val.idp_name \in DOMAIN ENABLED_IDPS
         /\ result.ok =>
              /\ Len(result.val.val) > Len(response.val.idp_name)
              /\ SubSeq(result.val.val, 1, Len(response.val.idp_name) + 1) =
                    response.val.idp_name \o <<":">>
              /\ relay # NoneV /\ calls[1].arg = relay =>
                    SubSeq(result.val.val, 1, Len(relay.val) + 1) = relay.val \o <<":">>

\* The round trip is complete: the RelayState auth_url sent came back, and
\* the user ID was made from the response.
Wit_C9 ==
    /\ request.op = "get_user_id"
    /\ result.ok
    /\ relay # NoneV
    /\ response.val.idp_name = relay.val

\* C10 as claimed: every entry of the attributes handed to the pipeline,
\* name_id included, is a sequence of strings, name_id holds the NameID the
\* engine reported, and a provider whose permanent ID is name_id gets the
\* whole NameID into its user IDs.
Cex_C10 ==
    /\ request.op = "auth_complete" /\ result.ok =>
         /\ \A k \in DOMAIN response.val.attributes :
                response.val.attributes[k].kind = "list"
         /\ response.val.attributes[NAME_ID] = ListV(<<request.engine.nameid>>)
    /\ request.op = "get_user_id"
       /\ PermanentIdKey(ENABLED_IDPS[response.val.idp_name]) = NAME_ID =>
         /\ result.ok
         /\ result.val = StrV(response.val.idp_name \o <<":">> \o
                              FirstValue(response.val.attributes[NAME_ID]).val)

====
